---- MODULE Spec2Model ----
(***************************************************************************)
(* Model of scripts/check-status.js: one invocation of runStatusCheck     *)
(* probes every configured service, folds the outcome into the daily      *)
(* history (status-history.json) and the incident ledger                  *)
(* (status-incidents.json), and overwrites the current status record      *)
(* (status-results.json).  Invocations are started one after another by   *)
(* an external timer; the three files persist between them.               *)
(*                                                                         *)
(* Time is counted in abstract seconds; a calendar day has DayLen of      *)
(* them.  A calendar date (the YYYY-MM-DD string of getDateString) is     *)
(* represented by its day number: the string is an order-preserving,      *)
(* injective rendering of that number.                                     *)
(***************************************************************************)
EXTENDS Integers, Sequences, FiniteSets, TLC

\* ---------------------------------------------------------------- bounds
DayLen == 2          \* seconds in one calendar day
StartDay == 70       \* the calendar day (UTC) of the first run
MaxTicks == 2        \* the clock never goes beyond T0 + MaxTicks
JakartaOffset == 1   \* seconds by which 'Asia/Jakarta' is ahead of UTC

\* ------------------------------------------------------ program constants
NULL == -1           \* JavaScript null in a numeric field (status)
NullStr == "null"    \* JavaScript null in a string field (error)
MaxHistory == 60
MaxIncidents == 100
DefaultTimeout == 10000

T0 == StartDay * DayLen

Min(a, b) == IF a < b THEN a ELSE b

\* Array.prototype.slice(0, n)
Slice(s, n) == SubSeq(s, 1, Min(n, Len(s)))

\* Array.prototype.unshift(x)
Unshift(s, x) == <<x>> \o s

\* `a || b` on strings: null and '' are falsy
OrElse(a, b) == IF a = NullStr \/ a = "" THEN b ELSE a

\* ------------------------------------------------------------- timezones
TzOffset(timezone) == IF timezone = "Asia/Jakarta" THEN JakartaOffset ELSE 0

\* getDateString(timestamp, timezone): the calendar date of an instant
getDateString(timestamp, timezone) == (timestamp + TzOffset(timezone)) \div DayLen

\* ---------------------------------------------------------- configuration
DefaultServices ==
    << [name |-> "AniList", url |-> "https://anilist.co", timeout |-> DefaultTimeout],
       [name |-> "Giscus", url |-> "https://giscus.app", timeout |-> DefaultTimeout] >>

DefaultConfig == [services |-> DefaultServices, timezone |-> ""]

\* config.json as found on disk: absent, or an object with services and an
\* optional timezone ('' stands for an absent timezone key).
ConfigFiles ==
    { [present |-> FALSE, parses |-> FALSE, services |-> <<>>, timezone |-> ""],
      [present |-> TRUE, parses |-> TRUE, timezone |-> "Asia/Jakarta",
       services |-> << [name |-> "Site", url |-> "https://anilist.co", timeout |-> 5000],
                       [name |-> "Mirror", url |-> "https://anilist.co", timeout |-> 0] >>],
      [present |-> TRUE, parses |-> TRUE, timezone |-> "",
       services |-> << [name |-> "AniList", url |-> "https://anilist.co", timeout |-> DefaultTimeout],
                       [name |-> "Broken", url |-> "anilist.co", timeout |-> DefaultTimeout],
                       [name |-> "Giscus", url |-> "https://giscus.app", timeout |-> DefaultTimeout] >>],
      [present |-> TRUE, parses |-> TRUE, timezone |-> "", services |-> <<>>] }

\* A config.json cut off in the middle: JSON.parse throws a SyntaxError.
MalformedConfigFile ==
    [present |-> TRUE, parses |-> FALSE, services |-> <<>>, timezone |-> ""]

\* Mutant: an empty list of services is not looked for.
NoServices_Ignored(services) == FALSE

\* !services || services.length === 0 (the empty list also stands for an
\* absent services key)
NoServices(services) == Len(services) = 0

\* config.timezone || 'UTC'
ConfigTz(cfg) == OrElse(cfg.timezone, "UTC")

\* new URL(url) succeeds only for an absolute URL with a scheme
UrlParses(url) == url \in {"https://anilist.co", "https://giscus.app"}

\* ----------------------------------------------------------------- prober
\* What the transport reports first for one request.
ProbeEvents ==
    { [kind |-> "response", statusCode |-> 200, statusMessage |-> "OK", message |-> ""],
      [kind |-> "response", statusCode |-> 404, statusMessage |-> "", message |-> ""],
      [kind |-> "error", statusCode |-> NULL, statusMessage |-> "", message |-> "ECONNREFUSED"],
      [kind |-> "timeout", statusCode |-> NULL, statusMessage |-> "", message |-> ""] }

\* Seconds from dispatch to the event: a response or a transport error comes
\* within the second, the timer fires only after the timeout has run out.
Elapsed(ev) == IF ev.kind = "timeout" THEN 1 ELSE 0

\* Mutant: the timer's callback reports a transport error.
checkWebsiteStatus_TimeoutAsError(url, ev, startTime, endTime) ==
    [ url |-> url,
      status |-> IF ev.kind = "response" THEN ev.statusCode ELSE NULL,
      statusText |-> IF ev.kind = "response" THEN OrElse(ev.statusMessage, "")
                     ELSE "Error",
      responseTime |-> endTime - startTime,
      error |-> IF ev.kind = "response" THEN NullStr ELSE ev.message,
      timestamp |-> endTime ]

\* The record checkWebsiteStatus resolves with, for a request started at
\* startTime whose first event ev arrives at endTime.
checkWebsiteStatus(url, ev, startTime, endTime) ==
    [ url |-> url,
      status |-> IF ev.kind = "response" THEN ev.statusCode ELSE NULL,
      statusText |-> CASE ev.kind = "response" -> OrElse(ev.statusMessage, "")
                       [] ev.kind = "error" -> "Error"
                       [] OTHER -> "Timeout",
      responseTime |-> endTime - startTime,
      error |-> CASE ev.kind = "response" -> NullStr
                  [] ev.kind = "error" -> ev.message
                  [] OTHER -> "Request timed out",
      timestamp |-> endTime ]

\* Mutant: only server errors count as down.
IsDown_ServerErrors(result) == result.status = NULL \/ result.status >= 500

\* result.status === null || result.status >= 400
IsDown(result) == result.status = NULL \/ result.status >= 400

\* Mutant: the result is put in front of the earlier ones.
PushResult_Unshift(results, result) == Unshift(results, result)

\* results.push(result)
PushResult(results, result) == Append(results, result)

\* Mutant: every call of resolve hands a result to the caller.
Settle_EveryCall(results, result, settled) == PushResult(results, result)

\* resolve(result), seen from the awaiting loop: the first call settles the
\* promise and its result is the one the loop takes; a call on a settled
\* promise has no effect.
Settle(results, result, settled) ==
    IF settled THEN results ELSE PushResult(results, result)

\* Mutant: the check is stamped with the time of its first result.
CurrentCheck_FirstResult(timestamp, results) ==
    [timestamp |-> results[1].timestamp, results |-> results]

\* const currentCheck = { timestamp: Math.floor(Date.now() / 1000), results }
CurrentCheck(timestamp, results) == [timestamp |-> timestamp, results |-> results]

\* ------------------------------------------------------- array helpers
\* Array.prototype.findIndex, given the set of indices whose element
\* satisfies the predicate: the first of them, 0 when there is none
\* (JavaScript's -1).
FindIndex(matching) ==
    IF matching = {} THEN 0
    ELSE CHOOSE i \in matching : \A j \in matching : i <= j

\* ------------------------------------------------- daily history update
\* Mutant: the entry's date is taken in UTC, the configured timezone forgotten.
TodayHistoryIndex_NoTz(history, currentDate, timezone) ==
    FindIndex({ i \in 1..Len(history) :
                  getDateString(history[i].timestamp, "UTC") = currentDate })

\* history.findIndex(item => getDateString(item.timestamp, tz) === currentDate)
TodayHistoryIndex(history, currentDate, timezone) ==
    FindIndex({ i \in 1..Len(history) :
                  getDateString(history[i].timestamp, timezone) = currentDate })

\* Mutant: the slice after the unshift is forgotten.
AddDailyEntry_NoSlice(history, dailyEntry) == Unshift(history, dailyEntry)

\* Mutant: push instead of unshift.
AddDailyEntry_Push(history, dailyEntry) == Slice(Append(history, dailyEntry), MaxHistory)

\* history.unshift(dailyEntry); history = history.slice(0, 60)
AddDailyEntry(history, dailyEntry) == Slice(Unshift(history, dailyEntry), MaxHistory)

\* if (history[i].status === 'good' && hasError) { status = 'error'; timestamp = now }
UpdateDailyEntry(history, i, hasError, currentUnixTimestamp) ==
    IF history[i].status = "good" /\ hasError
    THEN [history EXCEPT ![i].status = "error", ![i].timestamp = currentUnixTimestamp]
    ELSE history

\* The history array after the daily-status block of runStatusCheck.
UpdateHistory(history, currentDate, currentUnixTimestamp, hasError, timezone) ==
    LET todayHistoryIndex == TodayHistoryIndex(history, currentDate, timezone)
        dailyEntry == [ date |-> currentDate,
                        timestamp |-> currentUnixTimestamp,
                        status |-> IF hasError THEN "error" ELSE "good" ]
    IN  IF todayHistoryIndex = 0
        THEN AddDailyEntry(history, dailyEntry)
        ELSE UpdateDailyEntry(history, todayHistoryIndex, hasError, currentUnixTimestamp)

\* ------------------------------------------------------- incident ledger
\* incidents.findIndex(incident =>
\*     getDateString(incident.timestamp, tz) === currentDate && incident.service === result.url)
ExistingIncidentIndex(incidents, url, currentDate, timezone) ==
    FindIndex({ i \in 1..Len(incidents) :
                  /\ getDateString(incidents[i].timestamp, timezone) = currentDate
                  /\ incidents[i].service = url })

NewIncident(result, currentDate, currentUnixTimestamp) ==
    [ date |-> currentDate,
      timestamp |-> currentUnixTimestamp,
      service |-> result.url,
      name |-> result.name,
      status |-> result.status,
      error |-> OrElse(result.error, result.statusText),
      responseTime |-> result.responseTime ]

\* incidents.unshift(incident)
AddIncident(incidents, incident) == Unshift(incidents, incident)

\* The loop `for (const result of results)` from result number i on.
RECURSIVE RecordIncidents(_, _, _, _, _, _)
RecordIncidents(incidents, results, i, currentDate, currentUnixTimestamp, timezone) ==
    IF i > Len(results) THEN incidents
    ELSE LET result == results[i]
             next == IF /\ IsDown(result)
                        /\ ExistingIncidentIndex(incidents, result.url, currentDate, timezone) = 0
                     THEN AddIncident(incidents, NewIncident(result, currentDate, currentUnixTimestamp))
                     ELSE incidents
         IN  RecordIncidents(next, results, i + 1, currentDate, currentUnixTimestamp, timezone)

\* Mutant: off by one, slice(0, 101).
TruncateIncidents_OffByOne(incidents) == Slice(incidents, MaxIncidents + 1)

\* incidents = incidents.slice(0, 100)
TruncateIncidents(incidents) == Slice(incidents, MaxIncidents)

\* The incidents array after the incident block of runStatusCheck.
UpdateIncidents(incidents, results, hasError, currentDate, currentUnixTimestamp, timezone) ==
    TruncateIncidents(
        IF hasError
        THEN RecordIncidents(incidents, results, 1, currentDate, currentUnixTimestamp, timezone)
        ELSE incidents)

\* --------------------------------------------------------------- renderer
\* setTimeout(() => { ...; loadStatus(); }, 5000)
RetryDelay == 5000

\* `r.status && ...`: null and 0 are falsy
Truthy(status) == status # NULL /\ status # 0

\* hostname.split(".")[0], the hostname being the url without its scheme
\* and path
ServiceName(url) ==
    CASE url = "https://anilist.co" -> "anilist"
      [] url = "anilist.co" -> "anilist"
      [] url = "https://giscus.app" -> "giscus"
      [] OTHER -> url

\* r.status === null || r.status >= 400
ShownDown(r) == r.status = NULL \/ r.status >= 400

\* downServices.map(...): the names of the services shown as down
RECURSIVE ServiceNames(_)
ServiceNames(downServices) ==
    IF downServices = <<>> THEN <<>>
    ELSE <<ServiceName(Head(downServices).url)>> \o ServiceNames(Tail(downServices))

\* The overall badge before loadStatus has set it.
NoBadge == [className |-> "", names |-> <<>>]

\* Mutant: the degraded branch is tried before the down branch.
Badge_DegradedFirst(results, badge) ==
    LET allUp == \A i \in 1..Len(results) :
                     Truthy(results[i].status) /\ results[i].status < 400
        hasDown == \E i \in 1..Len(results) : ShownDown(results[i])
        hasDegraded == \E i \in 1..Len(results) :
                           /\ Truthy(results[i].status)
                           /\ results[i].status >= 400
                           /\ results[i].status < 500
        downServices == SelectSeq(results, ShownDown)
    IN  IF allUp THEN [className |-> "status-badge", names |-> <<>>]
        ELSE IF hasDegraded THEN [className |-> "status-badge degraded", names |-> <<>>]
        ELSE IF hasDown
        THEN [className |-> "status-badge down", names |-> ServiceNames(downServices)]
        ELSE badge

\* loadStatus: the overall badge for data.results; the badge stays as it
\* was when none of the three branches is taken.
Badge(results, badge) ==
    LET allUp == \A i \in 1..Len(results) :
                     Truthy(results[i].status) /\ results[i].status < 400
        hasDown == \E i \in 1..Len(results) : ShownDown(results[i])
        hasDegraded == \E i \in 1..Len(results) :
                           /\ Truthy(results[i].status)
                           /\ results[i].status >= 400
                           /\ results[i].status < 500
        downServices == SelectSeq(results, ShownDown)
    IN  IF allUp THEN [className |-> "status-badge", names |-> <<>>]
        ELSE IF hasDown
        THEN [className |-> "status-badge down", names |-> ServiceNames(downServices)]
        ELSE IF hasDegraded THEN [className |-> "status-badge degraded", names |-> <<>>]
        ELSE badge

\* formatUnixTimestamp(timestamp): the instant as a text
formatUnixTimestamp(timestamp) == ToString(timestamp)

\* Mutant: the catch block shows the error and schedules nothing.
ScheduleRetry_Never(timers) == timers

\* setTimeout(callback, 5000): one more timer, RetryDelay ms to run
ScheduleRetry(timers) == Append(timers, RetryDelay)

\* ------------------------------------------------------------------ state
VARIABLES
    now,            \* the wall clock, in seconds (Date.now() / 1000, floored)
    configFile,     \* config.json
    historyFile,    \* status-history.json
    incidentsFile,  \* status-incidents.json
    resultsFile,    \* status-results.json
    pc,             \* where the running invocation is; "idle" when none runs
    config,         \* runStatusCheck: config
    results,        \* runStatusCheck: results
    hasError,       \* runStatusCheck: hasError
    currentCheck,   \* runStatusCheck: currentCheck
    currentDate,    \* runStatusCheck: currentDate, NULL before line 137
    currentUnixTimestamp,   \* runStatusCheck: currentUnixTimestamp
    history,        \* runStatusCheck: history
    incidents,      \* runStatusCheck: incidents
    exitCode,       \* exit code of the last invocation, NULL before the first
    lastError,      \* what the last invocation's .catch logged, "" if nothing
    diskOk,         \* whether the working directory can still be written
    started,        \* invocations started so far
    appended,       \* times status-history.json has been written
    request,        \* the prober's latest request: "none", "open", "paused",
                    \* "flowing", "ended", "failed" or "destroyed"
    loading,        \* the page's loadStatus: "closed" (page not opened),
                    \* "status", "history", "incidents" (the fetch it
                    \* awaits), "failed" (in the catch block's state) or
                    \* "done"
    data,           \* loadStatus: data, NoCheck before it is fetched
    pageHistory,    \* the page's global history
    pageIncidents,  \* the page's global incidents
    container,      \* what #services-container shows: "loading", "services"
                    \* or "error"
    badge,          \* #overall-badge
    timers,         \* the page's pending timers, each with its delay in ms
    lastUpdated,    \* the text of #last-updated
    storeState      \* per store file, how its bytes stand: "whole" (the
                    \* JSON of the variable above, or no file), "invalid"
                    \* (not JSON), "notList" (JSON, but not an array) or
                    \* "partial" (cut by a writeFile that has not finished)

vars == << now, configFile, historyFile, incidentsFile, resultsFile, pc, config,
           results, hasError, currentCheck, currentDate, currentUnixTimestamp,
           history, incidents, exitCode, lastError, diskOk, started, appended,
           request, storeState, loading, data, pageHistory, pageIncidents,
           container, badge, timers, lastUpdated >>

page == << loading, data, pageHistory, pageIncidents, container, badge, timers,
           lastUpdated >>

script == << now, configFile, historyFile, incidentsFile, resultsFile, pc, config,
             results, hasError, currentCheck, currentDate, currentUnixTimestamp,
             history, incidents, exitCode, lastError, diskOk, started, appended,
             request, storeState >>

files == << configFile, historyFile, incidentsFile, resultsFile, storeState >>

AllWhole == [history |-> "whole", incidents |-> "whole", results |-> "whole"]

\* What the try/catch around fs.readFile and JSON.parse leaves in the
\* variable: the parsed file, or the initial [] when either throws.
ReadStore(file, state) == IF state \in {"invalid", "partial"} THEN <<>> ELSE file

\* status-results.json before any run: no check, no results
NoCheck == [timestamp |-> NULL, results |-> <<>>]

NoConfig == [services |-> <<>>, timezone |-> ""]

\* ---------------------------------------------------- files of earlier runs
\* The first instant of calendar day `day` in `timezone`.
PastTs(day, timezone) == day * DayLen - TzOffset(timezone)

\* status-history.json after MaxHistory days of one run a day, the latest
\* fifty of them with both default services timing out.
PastHistory(timezone) ==
    [ k \in 1..MaxHistory |->
        [ date |-> StartDay - k,
          timestamp |-> PastTs(StartDay - k, timezone),
          status |-> IF 2 * k <= MaxIncidents THEN "error" ELSE "good" ] ]

\* status-incidents.json after those days: MaxIncidents - 1 incidents.
PastIncidents(timezone) ==
    [ k \in 1..(MaxIncidents - 1) |->
        LET day == StartDay - 1 - ((k - 1) \div 2)
            service == DefaultServices[IF (k - 1) % 2 = 0 THEN 2 ELSE 1]
        IN  [ date |-> day,
              timestamp |-> PastTs(day, timezone),
              service |-> service.url,
              name |-> service.name,
              status |-> NULL,
              error |-> "Request timed out",
              responseTime |-> 0 ] ]

\* status-results.json after those days.
PastCheck(timezone) ==
    [ timestamp |-> PastTs(StartDay - 1, timezone),
      results |-> [ k \in 1..2 |->
          [ url |-> DefaultServices[k].url,
            status |-> NULL,
            statusText |-> "Timeout",
            responseTime |-> 0,
            error |-> "Request timed out",
            timestamp |-> PastTs(StartDay - 1, timezone),
            name |-> DefaultServices[k].name ] ] ]

\* try { config = JSON.parse(readFile('config.json')) } catch { config = default }
LoadedConfig(file) ==
    IF file.present /\ file.parses
    THEN [services |-> file.services, timezone |-> file.timezone]
    ELSE DefaultConfig

\* No invocation is running.
Stopped ==
    /\ pc = "idle"
    /\ config = NoConfig
    /\ results = <<>>
    /\ hasError = FALSE
    /\ currentCheck = NoCheck
    /\ currentDate = NULL
    /\ currentUnixTimestamp = NULL
    /\ history = <<>>
    /\ incidents = <<>>
    /\ exitCode = NULL
    /\ lastError = ""
    /\ diskOk = TRUE
    /\ started = 0
    /\ request = "none"
    /\ loading = "closed"
    /\ data = NoCheck
    /\ pageHistory = <<>>
    /\ pageIncidents = <<>>
    /\ container = "loading"
    /\ badge = NoBadge
    /\ timers = <<>>
    /\ lastUpdated = ""

NoRun ==
    /\ now = T0 - 1
    /\ Stopped

\* A first deployment: none of the three files exists yet.
InitFresh ==
    /\ configFile \in ConfigFiles
    /\ historyFile = <<>>
    /\ incidentsFile = <<>>
    /\ resultsFile = NoCheck
    /\ storeState = AllWhole
    /\ appended = 0
    /\ NoRun

\* A first deployment without config.json.
InitDefault ==
    /\ InitFresh
    /\ ~configFile.present

\* A first deployment without config.json, two seconds before the clock's
\* last instant: time for two invocations.
InitLate ==
    /\ configFile \in { file \in ConfigFiles : ~file.present }
    /\ historyFile = <<>>
    /\ incidentsFile = <<>>
    /\ resultsFile = NoCheck
    /\ storeState = AllWhole
    /\ appended = 0
    /\ now = T0 + MaxTicks - 2
    /\ Stopped

\* A deployment that has run for MaxHistory days, in a configured timezone
\* or with a config.json whose services have since been removed.
InitPast ==
    /\ configFile \in { file \in ConfigFiles :
                           file.timezone # "" \/ (file.present /\ file.services = <<>>) }
    /\ historyFile = PastHistory(ConfigTz(configFile))
    /\ incidentsFile = PastIncidents(ConfigTz(configFile))
    /\ resultsFile = PastCheck(ConfigTz(configFile))
    /\ storeState = AllWhole
    /\ appended = MaxHistory
    /\ NoRun

Init == InitFresh \/ InitPast

\* A deployment whose files have been damaged by hand or by a crash:
\* config.json cut off, or a store that is not JSON, or a store holding {}.
InitDamaged ==
    /\ \/ /\ configFile = MalformedConfigFile
          /\ storeState = AllWhole
       \/ /\ configFile \in { file \in ConfigFiles : ~file.present }
          /\ storeState \in
                { [AllWhole EXCEPT !.history = "invalid", !.incidents = "invalid"],
                  [AllWhole EXCEPT !.history = "notList"],
                  [AllWhole EXCEPT !.incidents = "notList"] }
    /\ historyFile = <<>>
    /\ incidentsFile = <<>>
    /\ resultsFile = NoCheck
    /\ appended = 0
    /\ NoRun

\* The results of a run in the second before the first run of the model:
\* the first configured service met a transport error, the others
\* answered 200.
EarlierResults(file) ==
    [ k \in 1..Len(file.services) |->
        checkWebsiteStatus(file.services[k].url,
                           CHOOSE ev \in ProbeEvents :
                               IF k = 1 THEN ev.kind = "error"
                               ELSE ev.kind = "response" /\ ev.statusCode = 200,
                           T0 - 1, T0 - 1)
            @@ [name |-> file.services[k].name] ]

\* A deployment in a configured timezone, left by two earlier runs of the
\* day: one saw a target down and completed, the next was cut off while
\* writing status-history.json (C20) and left the file cut.
InitCutHistory ==
    /\ configFile \in { file \in ConfigFiles : file.timezone # "" }
    /\ storeState = [AllWhole EXCEPT !.history = "partial"]
    /\ historyFile = <<>>
    /\ incidentsFile =
          << NewIncident(EarlierResults(configFile)[1],
                         getDateString(T0 - 1, ConfigTz(configFile)), T0 - 1) >>
    /\ resultsFile = CurrentCheck(T0 - 1, EarlierResults(configFile))
    /\ appended = 1
    /\ NoRun

\* process.exit(code): the invocation is over and its locals are gone.
Exit(code, error) ==
    /\ pc' = "idle"
    /\ exitCode' = code
    /\ lastError' = error
    /\ config' = NoConfig
    /\ results' = <<>>
    /\ hasError' = FALSE
    /\ currentCheck' = NoCheck
    /\ currentDate' = NULL
    /\ currentUnixTimestamp' = NULL
    /\ history' = <<>>
    /\ incidents' = <<>>
    /\ request' = "none"

\* ---------------------------------------------------------------- actions
\* The timer starts the script, at least a second after the previous start;
\* runStatusCheck loads config.json and leaves at once when no service is
\* configured. A deployment whose disk has failed is taken out of service:
\* no invocation is followed after that.
LoadConfig ==
    /\ pc = "idle"
    /\ diskOk
    /\ \E gap \in 1..DayLen :
         /\ now + gap <= T0 + MaxTicks
         /\ now' = now + gap
    /\ started' = started + 1
    /\ LET cfg == LoadedConfig(configFile) IN
         IF NoServices(cfg.services)
         THEN Exit(0, "")
         ELSE /\ pc' = "probing"
              /\ config' = cfg
              /\ results' = <<>>
              /\ hasError' = FALSE
              /\ exitCode' = NULL
              /\ lastError' = ""
              /\ UNCHANGED << currentCheck, currentDate, currentUnixTimestamp,
                              history, incidents, request >>
    /\ UNCHANGED << files, diskOk, appended >>
    /\ UNCHANGED page

\* One turn of `for (const service of services)` up to the await: the
\* executor of checkWebsiteStatus runs. new URL(url) throws inside it, so
\* the promise rejects, runStatusCheck rejects and the .catch handler exits
\* with code 1; otherwise the request is sent and the timer is armed.
SendRequest ==
    /\ pc = "probing"
    /\ request # "open"
    /\ LET service == config.services[Len(results) + 1] IN
         IF ~UrlParses(service.url)
         THEN Exit(1, "TypeError: Invalid URL")
         ELSE /\ request' = "open"
              /\ UNCHANGED << pc, config, results, hasError, currentCheck, currentDate, currentUnixTimestamp,
                              
                              history, incidents, exitCode, lastError >>
    /\ UNCHANGED << now, files, diskOk, started, appended >>
    /\ UNCHANGED page

\* The first event ev of the open request resolves the promise; the loop
\* body after the await takes the result. state is what the handler leaves
\* the request in.
Resolved(ev, state) ==
    /\ LET service == config.services[Len(results) + 1]
           elapsed == Elapsed(ev)
           result == checkWebsiteStatus(service.url, ev, now, now + elapsed)
                         @@ [name |-> service.name]
       IN  /\ now + elapsed <= T0 + MaxTicks
           /\ now' = now + elapsed
           /\ results' = Settle(results, result, FALSE)
           /\ hasError' = (hasError \/ IsDown(result))
           /\ pc' = IF Len(results) + 1 = Len(config.services)
                    THEN "aggregate" ELSE "probing"
    /\ request' = state
    /\ UNCHANGED << files, config, currentCheck, currentDate, currentUnixTimestamp,
                    history, incidents, exitCode,
                    lastError, diskOk, started, appended >>
    /\ UNCHANGED page

\* Mutant: the response is never resumed.
Resume_Forgotten(state) == state

\* res.resume(): a paused response starts flowing, its body is discarded
\* as it arrives.
Resume(state) == IF state = "paused" THEN "flowing" ELSE state

\* client.request's callback: resolve({...status: res.statusCode...}), then
\* res.resume().
OnResponse ==
    /\ pc = "probing"
    /\ request = "open"
    /\ \E ev \in { e \in ProbeEvents : e.kind = "response" } :
         Resolved(ev, Resume("paused"))

\* request.on('error', ...)
OnError ==
    /\ pc = "probing"
    /\ request = "open"
    /\ \E ev \in { e \in ProbeEvents : e.kind = "error" } :
         Resolved(ev, "failed")

\* The setTimeout callback: request.destroy(), resolve({...'Timeout'...}).
OnTimeout ==
    /\ pc = "probing"
    /\ request = "open"
    /\ \E ev \in { e \in ProbeEvents : e.kind = "timeout" } :
         Resolved(ev, "destroyed")

\* An event ev of the latest request after its promise has settled: the
\* handler runs as before (state is what it leaves the request in) and its
\* call of resolve finds the promise settled.
ResolvedAgain(ev, state) ==
    /\ LET last == results[Len(results)]
           late == checkWebsiteStatus(last.url, ev, last.timestamp - last.responseTime,
                                      now)
                       @@ [name |-> last.name]
       IN  results' = Settle(results, late, TRUE)
    /\ request' = state
    /\ UNCHANGED << now, files, pc, config, hasError, currentCheck, currentDate,
                    currentUnixTimestamp, history, incidents, exitCode, lastError,
                    diskOk, started, appended >>
    /\ UNCHANGED page

\* request.on('error', ...) after the response has come (the connection
\* breaks while the body is arriving) or after the timer's callback has
\* destroyed the request ('socket hang up').
LateError ==
    /\ pc # "idle"
    /\ request \in {"flowing", "destroyed"}
    /\ \E ev \in { e \in ProbeEvents : e.kind = "error" } :
         ResolvedAgain(ev, "failed")

\* The setTimeout callback after the response has come: the body is still
\* arriving, 'close' has not cleared the timer; request.destroy().
LateTimeout ==
    /\ pc # "idle"
    /\ request = "flowing"
    /\ \E ev \in { e \in ProbeEvents : e.kind = "timeout" } :
         ResolvedAgain(ev, "destroyed")

\* The environment: the rest of the body has arrived and has been thrown
\* away; the response emits 'end', the request 'close' (clearTimeout).
BodyEnds ==
    /\ request = "flowing"
    /\ request' = "ended"
    /\ UNCHANGED << now, files, pc, config, results, hasError, currentCheck, currentDate, currentUnixTimestamp,
                    
                    history, incidents, exitCode, lastError, diskOk, started,
                    appended >>
    /\ UNCHANGED page

\* From `const currentCheck = ...` to `incidents = incidents.slice(0, 100)`:
\* three readings of the clock (t1 <= t2 <= t3), the two files read, the
\* history and the ledger updated in memory. A store that parsed to
\* something else than an array has no findIndex (nor slice): the TypeError
\* is outside the try/catch and ends the run in the .catch handler.
Aggregate ==
    /\ pc = "aggregate"
    /\ IF storeState.history = "notList"
       THEN /\ Exit(1, "TypeError: history.findIndex is not a function")
            /\ UNCHANGED now
       ELSE IF storeState.incidents = "notList"
       THEN /\ Exit(1, IF hasError
                        THEN "TypeError: incidents.findIndex is not a function"
                        ELSE "TypeError: incidents.slice is not a function")
            /\ UNCHANGED now
       ELSE /\ \E t1, t2, t3 \in now..(now + 1) :
                 /\ t1 <= t2 /\ t2 <= t3
                 /\ t3 <= T0 + MaxTicks
                 /\ LET timezone == ConfigTz(config)
                        historyRead == ReadStore(historyFile, storeState.history)
                        incidentsRead == ReadStore(incidentsFile, storeState.incidents)
                    IN  /\ currentCheck' = CurrentCheck(t1, results)
                        /\ currentDate' = getDateString(t2, timezone)
                        /\ currentUnixTimestamp' = t3
                        /\ history' = UpdateHistory(historyRead, currentDate',
                                                    currentUnixTimestamp', hasError, timezone)
                        /\ incidents' = UpdateIncidents(incidentsRead, results, hasError,
                                                        currentDate', currentUnixTimestamp',
                                                        timezone)
                 /\ now' = t3
            /\ pc' = "saveHistory"
            /\ UNCHANGED << config, results, hasError, exitCode, lastError, request >>
    /\ UNCHANGED << files, diskOk, started, appended >>
    /\ UNCHANGED page

\* fs.writeFile('status-history.json', ...) opens the file with flag 'w':
\* the old content is cut off and the new one follows in chunks. A failed
\* open rejects and the .catch handler exits with code 1.
SaveHistory ==
    /\ pc = "saveHistory"
    /\ \/ /\ diskOk
          /\ storeState' = [storeState EXCEPT !.history = "partial"]
          /\ pc' = "writeHistory"
          /\ UNCHANGED << config, results, hasError, currentCheck, currentDate, currentUnixTimestamp,
                          history,
                          incidents, exitCode, lastError, request >>
       \/ /\ ~diskOk
          /\ Exit(1, "ENOSPC")
          /\ UNCHANGED storeState
    /\ UNCHANGED << now, configFile, historyFile, incidentsFile, resultsFile,
                    diskOk, started, appended >>
    /\ UNCHANGED page

\* The write of status-history.json ends: the await returns, or it rejects
\* and leaves the file cut.
HistorySaved ==
    /\ pc = "writeHistory"
    /\ \/ /\ diskOk
          /\ historyFile' = history
          /\ storeState' = [storeState EXCEPT !.history = "whole"]
          /\ appended' = appended + 1
          /\ pc' = "saveIncidents"
          /\ UNCHANGED << config, results, hasError, currentCheck, currentDate, currentUnixTimestamp,
                          history,
                          incidents, exitCode, lastError, request >>
       \/ /\ ~diskOk
          /\ Exit(1, "ENOSPC")
          /\ UNCHANGED << historyFile, storeState, appended >>
    /\ UNCHANGED << now, configFile, incidentsFile, resultsFile, diskOk, started >>
    /\ UNCHANGED page

\* fs.writeFile('status-incidents.json', ...) opens the file.
SaveIncidents ==
    /\ pc = "saveIncidents"
    /\ \/ /\ diskOk
          /\ storeState' = [storeState EXCEPT !.incidents = "partial"]
          /\ pc' = "writeIncidents"
          /\ UNCHANGED << config, results, hasError, currentCheck, currentDate, currentUnixTimestamp,
                          history,
                          incidents, exitCode, lastError, request >>
       \/ /\ ~diskOk
          /\ Exit(1, "ENOSPC")
          /\ UNCHANGED storeState
    /\ UNCHANGED << now, configFile, historyFile, incidentsFile, resultsFile,
                    diskOk, started, appended >>
    /\ UNCHANGED page

\* The write of status-incidents.json ends.
IncidentsSaved ==
    /\ pc = "writeIncidents"
    /\ \/ /\ diskOk
          /\ incidentsFile' = incidents
          /\ storeState' = [storeState EXCEPT !.incidents = "whole"]
          /\ pc' = "saveResults"
          /\ UNCHANGED << config, results, hasError, currentCheck, currentDate, currentUnixTimestamp,
                          history,
                          incidents, exitCode, lastError, request >>
       \/ /\ ~diskOk
          /\ Exit(1, "ENOSPC")
          /\ UNCHANGED << incidentsFile, storeState >>
    /\ UNCHANGED << now, configFile, historyFile, resultsFile, diskOk, started,
                    appended >>
    /\ UNCHANGED page

\* fs.writeFile('status-results.json', ...) opens the file.
SaveResults ==
    /\ pc = "saveResults"
    /\ \/ /\ diskOk
          /\ storeState' = [storeState EXCEPT !.results = "partial"]
          /\ pc' = "writeResults"
          /\ UNCHANGED << config, results, hasError, currentCheck, currentDate, currentUnixTimestamp,
                          history,
                          incidents, exitCode, lastError, request >>
       \/ /\ ~diskOk
          /\ Exit(1, "ENOSPC")
          /\ UNCHANGED storeState
    /\ UNCHANGED << now, configFile, historyFile, incidentsFile, resultsFile,
                    diskOk, started, appended >>
    /\ UNCHANGED page

\* The write of status-results.json ends; return results; process.exit(0).
ResultsSaved ==
    /\ pc = "writeResults"
    /\ \/ /\ diskOk
          /\ resultsFile' = currentCheck
          /\ storeState' = [storeState EXCEPT !.results = "whole"]
          /\ Exit(0, "")
       \/ /\ ~diskOk
          /\ Exit(1, "ENOSPC")
          /\ UNCHANGED << resultsFile, storeState >>
    /\ UNCHANGED << now, configFile, historyFile, incidentsFile, diskOk, started,
                    appended >>
    /\ UNCHANGED page

\* The environment: the disk fills up (or the directory loses its write
\* permission) while the script is writing or about to write; every later
\* write fails.
DiskFails ==
    /\ pc \in {"saveHistory", "writeHistory", "saveIncidents", "writeIncidents",
               "saveResults", "writeResults"}
    /\ diskOk
    /\ diskOk' = FALSE
    /\ UNCHANGED << now, files, pc, config, results, hasError, currentCheck, currentDate, currentUnixTimestamp,
                    
                    history, incidents, exitCode, lastError, started, appended,
                    request >>
    /\ UNCHANGED page

\* ----------------------------------------------------------------- page
\* The page is opened: initializeApp() calls loadStatus(), which asks for
\* status-results.json.
InitializeApp ==
    /\ loading = "closed"
    /\ loading' = "status"
    /\ UNCHANGED << script, data, pageHistory, pageIncidents, container, badge,
                    timers, lastUpdated >>

\* loadStatus, from the answer to its first fetch on: response.json()
\* throws for the 404 page of a missing file and for a file cut by a write
\* in progress or failed; the catch block shows the error and schedules
\* the retry. Otherwise status-history.json is asked for.
LoadStatus ==
    /\ loading = "status"
    /\ IF resultsFile # NoCheck /\ storeState.results = "whole"
       THEN /\ data' = resultsFile
            /\ loading' = "history"
            /\ UNCHANGED << container, timers, lastUpdated >>
       ELSE /\ container' = "error"
            /\ lastUpdated' = "Error"
            /\ timers' = ScheduleRetry(timers)
            /\ loading' = "failed"
            /\ UNCHANGED data
    /\ UNCHANGED << script, pageHistory, pageIncidents, badge >>

\* loadStatus, from the answer to its second fetch on: a history that
\* cannot be parsed is taken as [].
LoadHistory ==
    /\ loading = "history"
    /\ pageHistory' = ReadStore(historyFile, storeState.history)
    /\ loading' = "incidents"
    /\ UNCHANGED << script, data, pageIncidents, container, badge, timers,
                    lastUpdated >>

\* loadStatus, from the answer to its third fetch on: incidents that
\* cannot be parsed are taken as []; the badge and the services are drawn.
LoadIncidents ==
    /\ loading = "incidents"
    /\ pageIncidents' = ReadStore(incidentsFile, storeState.incidents)
    /\ lastUpdated' = formatUnixTimestamp(data.timestamp)
    /\ badge' = Badge(data.results, badge)
    /\ container' = "services"
    /\ loading' = "done"
    /\ UNCHANGED << script, data, pageHistory, timers >>

\* The retry timer's callback: the spinner is shown and loadStatus() is
\* called again.
Retry ==
    /\ timers # <<>>
    /\ timers' = Tail(timers)
    /\ container' = "loading"
    /\ loading' = "status"
    /\ UNCHANGED << script, data, pageHistory, pageIncidents, badge, lastUpdated >>

Next ==
    \/ LoadConfig
    \/ SendRequest
    \/ OnResponse
    \/ OnError
    \/ OnTimeout
    \/ BodyEnds
    \/ Aggregate
    \/ SaveHistory
    \/ HistorySaved
    \/ SaveIncidents
    \/ IncidentsSaved
    \/ SaveResults
    \/ ResultsSaved
    \/ DiskFails

Spec == Init /\ [][Next]_vars

\* The runs of a first deployment only.
FirstRuns == InitFresh /\ [][Next]_vars

\* The runs of a first deployment, with Node's timers: a callback given to
\* setTimeout runs unless clearTimeout comes first, and the prober clears
\* its timer only on 'close', after a response or an error.
TimedRuns == InitFresh /\ [][Next]_vars /\ WF_vars(OnTimeout)

\* The runs of a first deployment with the default services, followed
\* through the events a request still meets after its promise has settled.
RacingNext == Next \/ LateError \/ LateTimeout

RacingRuns == InitDefault /\ [][RacingNext]_vars

\* The last runs of a first deployment with the default services, and a
\* page opened at any moment; the browser runs a timer's callback once its delay
\* has passed.
ViewNext ==
    \/ Next
    \/ InitializeApp
    \/ LoadStatus
    \/ LoadHistory
    \/ LoadIncidents
    \/ Retry

Viewed == InitLate /\ [][ViewNext]_vars /\ WF_vars(Retry)

\* The runs of a deployment whose files have been damaged.
DamagedRuns == (InitDamaged \/ InitCutHistory) /\ [][Next]_vars

\* ================================================================ claims
\* The timezone every run of a behaviour uses (config.json is not edited).
Tz == ConfigTz(LoadedConfig(configFile))

Today == getDateString(now, Tz)

Dates(h) == { h[i].date : i \in 1..Len(h) }

Entries(l) == { l[i] : i \in 1..Len(l) }

\* No two entries of the ledger l have the same service and date.
OnePerTargetAndDate(l) ==
    \A i, j \in 1..Len(l) :
        (i < j) => ~(l[i].service = l[j].service /\ l[i].date = l[j].date)

\* C1 (as claimed): the incident ledger, as computed by a run and as
\* stored in status-incidents.json, never holds two incidents with the same
\* service url and the same date.
C1_OneIncidentPerTargetAndDate ==
    /\ OnePerTargetAndDate(incidentsFile)
    /\ OnePerTargetAndDate(incidents)

\* C2 (as claimed): a step never changes the entry status-history.json
\* holds for a date: whatever date is in the file before and after the
\* step has the same entry, field for field.
C2_FirstWriterWins ==
    [][ (historyFile' # historyFile) =>
          \A i \in 1..Len(historyFile) : \A j \in 1..Len(historyFile') :
              (historyFile[i].date = historyFile'[j].date)
                  => (historyFile[i] = historyFile'[j]) ]_vars

\* C3 (as claimed): status-history.json never holds an entry dated today.
C3_NoEntryForToday ==
    \A i \in 1..Len(historyFile) : historyFile[i].date # Today

\* The outcome of a check: 'error' when some result is down, else 'good'.
Outcome(check) ==
    IF \E k \in 1..Len(check.results) : IsDown(check.results[k])
    THEN "error" ELSE "good"

\* C4 (as claimed): when a run has completed, status-results.json holds
\* the latest check, and the entry status-history.json holds for that
\* check's date has the outcome of that check.
C4_LastCheckOfDay ==
    (pc = "idle" /\ exitCode = 0 /\ Len(resultsFile.results) > 0) =>
        \A i \in 1..Len(historyFile) :
            (historyFile[i].date = getDateString(resultsFile.timestamp, Tz))
                => (historyFile[i].status = Outcome(resultsFile))

\* No two entries of the history h have the same date.
OnePerDate(h) == Cardinality(Dates(h)) = Len(h)

\* C5: the daily history, as computed by a run and as stored in
\* status-history.json, has at most one entry per calendar date.
C5_OneEntryPerDate ==
    /\ OnePerDate(historyFile)
    /\ OnePerDate(history)

\* A second run on a date has found the date's entry and added none.
C5_Witness ==
    /\ pc = "saveHistory"
    /\ Len(history) = Len(historyFile)
    /\ Len(history) > 0
    /\ history[1].date = Today
    /\ historyFile[1].date = Today

\* C6: status-history.json never has more than 60 entries, and whenever a
\* step removes a date from it, that date is older than every date the
\* file holds after the step.
C6_HistoryCapacity ==
    /\ [](Len(historyFile) <= 60)
    /\ [][ (historyFile' # historyFile) =>
             \A i \in 1..Len(historyFile) :
                 (historyFile[i].date \notin Dates(historyFile'))
                     => \A j \in 1..Len(historyFile') :
                            historyFile[i].date < historyFile'[j].date ]_vars

\* The file is full, and the oldest day of the earlier runs has been
\* evicted by a new day.
C6_Witness ==
    /\ Len(historyFile) = 60
    /\ historyFile[1].date >= StartDay
    /\ (StartDay - MaxHistory) \notin Dates(historyFile)

\* C7: status-history.json is sorted by date, strictly descending.
C7_HistorySorted ==
    \A i \in 1..(Len(historyFile) - 1) :
        historyFile[i].date > historyFile[i + 1].date

\* Runs on two days have both written their entry.
C7_Witness ==
    /\ Len(historyFile) >= 2
    /\ historyFile[1].date > StartDay
    /\ historyFile[2].date = StartDay

\* README.md: maxHistoryChecks, the capacity of the rolling history
maxHistoryChecks == 100

\* C8 (as claimed): after N writes of status-history.json the file holds
\* min(N, 100) entries, one per run.
C8_RollingHistory ==
    Len(historyFile) = Min(appended, maxHistoryChecks)

\* C9: status-incidents.json never has more than 100 entries, its entries
\* are in order of timestamp, newest first, and whenever a step removes an
\* incident from it, that incident is no newer than any the file holds
\* after the step.
C9_LedgerCapacity ==
    /\ [](Len(incidentsFile) <= 100)
    /\ [](\A i \in 1..(Len(incidentsFile) - 1) :
             incidentsFile[i].timestamp >= incidentsFile[i + 1].timestamp)
    /\ [][ (incidentsFile' # incidentsFile) =>
             \A i \in 1..Len(incidentsFile) :
                 (incidentsFile[i] \notin Entries(incidentsFile'))
                     => \A j \in 1..Len(incidentsFile') :
                            incidentsFile[i].timestamp <= incidentsFile'[j].timestamp ]_vars

\* The ledger is full, and the oldest incident of the earlier runs has been
\* cut off by new ones.
C9_Witness ==
    /\ Len(incidentsFile) = 100
    /\ incidentsFile[1].date >= StartDay
    /\ incidentsFile[100].date > StartDay - (MaxIncidents \div 2)

\* C10 (as claimed): no probe rejects, so no run ends in the .catch
\* handler with the error of a probe.
C10_ProbeNeverRejects ==
    lastError # "TypeError: Invalid URL"

\* C11: while a run holds results, its error flag is set exactly when some
\* result has no status code or a status code of 400 or more; and once the
\* ledger has been updated, every such result has an incident for its url,
\* and every incident the run has added carries no status code or one of
\* 400 or more.
C11_DownIffNoStatusOrError ==
    /\ (pc # "idle") =>
          (hasError <=> \E k \in 1..Len(results) :
                            results[k].status = NULL \/ results[k].status >= 400)
    /\ (pc = "saveHistory") =>
          /\ \A k \in 1..Len(results) :
                (results[k].status = NULL \/ results[k].status >= 400)
                    => \E i \in 1..Len(incidents) : incidents[i].service = results[k].url
          /\ \A i \in 1..Len(incidents) :
                (incidents[i] \notin Entries(incidentsFile))
                    => (incidents[i].status = NULL \/ incidents[i].status >= 400)

\* A run has seen one target answer 200 and the other 404, has set its
\* error flag and has recorded an incident with status 404 only.
C11_Witness ==
    /\ pc = "saveHistory"
    /\ hasError
    /\ Len(results) = 2
    /\ results[1].status = 200
    /\ results[2].status = 404
    /\ Len(incidents) = Len(incidentsFile) + 1
    /\ incidents[1].status = 404
    /\ incidents[1].service = results[2].url

\* C12: once the probing loop is over, the run holds one result per
\* configured service, the k-th result being that of the k-th service; and
\* the check a completed run has stored has the same shape (a run that
\* finds no service configured stores none).
C12_OneResultPerTargetInOrder ==
    /\ (pc \notin {"idle", "probing"}) =>
          /\ Len(results) = Len(config.services)
          /\ \A k \in 1..Len(results) :
                /\ results[k].url = config.services[k].url
                /\ results[k].name = config.services[k].name
    /\ (/\ pc = "idle"
        /\ exitCode = 0
        /\ Len(resultsFile.results) > 0
        /\ ~NoServices(LoadedConfig(configFile).services)) =>
          LET services == LoadedConfig(configFile).services IN
          /\ Len(resultsFile.results) = Len(services)
          /\ \A k \in 1..Len(services) :
                /\ resultsFile.results[k].url = services[k].url
                /\ resultsFile.results[k].name = services[k].name

\* A completed run whose first probe timed out and whose second got 200.
C12_Witness ==
    /\ pc = "idle"
    /\ exitCode = 0
    /\ Len(resultsFile.results) = 2
    /\ resultsFile.results[1].statusText = "Timeout"
    /\ resultsFile.results[2].status = 200
    /\ resultsFile.results[1].name # resultsFile.results[2].name

\* C13 (as claimed): the timestamp of a check is not later than the
\* timestamp of any of its results.
C13_StampedAtBatchStart ==
    \A k \in 1..Len(currentCheck.results) :
        currentCheck.timestamp <= currentCheck.results[k].timestamp

\* C13 (amended): the timestamp of a check, in the run and as stored in
\* status-results.json, is not earlier than the timestamp of any of its
\* results: it is read after the last probe.
C13_StampedAfterLastProbe ==
    /\ \A k \in 1..Len(currentCheck.results) :
          currentCheck.results[k].timestamp <= currentCheck.timestamp
    /\ \A k \in 1..Len(resultsFile.results) :
          resultsFile.results[k].timestamp <= resultsFile.timestamp

\* A stored check of this deployment stamped later than its first result.
C13_Witness ==
    /\ Len(resultsFile.results) = 2
    /\ resultsFile.timestamp >= T0
    /\ resultsFile.results[1].timestamp < resultsFile.timestamp
    /\ resultsFile.results[2].timestamp <= resultsFile.timestamp

\* C14 (as claimed): no probe ends the run; the probing loop is left only
\* towards the aggregation, with every target probed.
C14_FailedProbeDoesNotAbort ==
    [][(pc = "probing") => (pc' \in {"probing", "aggregate"})]_vars

\* C15: a step in which the clock passes the timeout of the open request
\* destroys the request and adds a result with no status code, statusText
\* 'Timeout' and error 'Request timed out'; and (before the end of the
\* observed time) an open request does not stay open.
C15_ProbeTimesOut ==
    /\ [][(request = "open" /\ now' > now) =>
            /\ request' = "destroyed"
            /\ Len(results') = Len(results) + 1
            /\ results'[Len(results')].status = NULL
            /\ results'[Len(results')].statusText = "Timeout"
            /\ results'[Len(results')].error = "Request timed out"]_vars
    /\ (request = "open" /\ now < T0 + MaxTicks) ~> (request # "open")

\* A probe has just timed out: the request is destroyed, the result says so.
C15_Witness ==
    /\ request = "destroyed"
    /\ Len(results) > 0
    /\ results[Len(results)].statusText = "Timeout"
    /\ results[Len(results)].responseTime > 0

\* C16 (as claimed): once the caller holds the result of an answered
\* request, the body of the response has ended.
C16_BodyDrainedBeforeReturn ==
    (Len(results) > 0 /\ request \in {"paused", "flowing", "ended"})
        => request = "ended"

\* C16 (amended): once the caller holds the result of an answered request,
\* the response is no longer paused: it is flowing, or has ended.
C16_BodyDiscardStarted ==
    /\ request # "paused"
    /\ (request \in {"flowing", "ended"}) =>
          /\ Len(results) > 0
          /\ results[Len(results)].status # NULL

\* The caller holds the result of the first target while the body of the
\* response is still arriving.
C16_Witness ==
    /\ pc = "probing"
    /\ request = "flowing"
    /\ Len(results) = 1
    /\ results[1].status = 200

\* C17 (as claimed): an invocation that ended with a non-zero exit code
\* ended on a failed write of one of the stores.
C17_NonZeroOnlyOnWriteFailure ==
    (exitCode # NULL /\ exitCode # 0) => lastError = "ENOSPC"

\* C18 (as claimed): a run that finds status-history.json or
\* status-incidents.json damaged (not JSON, or JSON that is not a list)
\* goes on from reading the stores to writing them; it is not aborted.
C18_DamagedStoreReadAsEmpty ==
    [][(pc = "aggregate" /\ pc' # "aggregate"
           /\ (storeState.history # "whole" \/ storeState.incidents # "whole"))
          => (pc' = "saveHistory" /\ exitCode' = NULL)]_vars

\* C19 (as claimed): with a config.json that does not parse, no run gets
\* to probe a target and any run that has ended has a non-zero exit code.
C19_MalformedConfigIsFatal ==
    (configFile.present /\ ~configFile.parses) => (pc = "idle" /\ exitCode # 0)

\* C20 (as claimed): at every moment each store file holds a complete
\* content, the previous one or the new one; a reader never finds a file
\* cut by a write in progress.
C20_StoresReplacedAtomically ==
    /\ storeState.history # "partial"
    /\ storeState.incidents # "partial"
    /\ storeState.results # "partial"

\* C21 (as claimed): when the first run of a deployment has ended on a
\* failed write, none of the three stores reflects it: none holds an
\* entry, an incident or a check.
C21_FailedRunNotCommitted ==
    (pc = "idle" /\ started = 1 /\ exitCode = 1 /\ lastError = "ENOSPC") =>
        /\ historyFile = <<>>
        /\ incidentsFile = <<>>
        /\ resultsFile = NoCheck

\* C24 (as claimed): once a run has applied the daily update to the history
\* it has read, applying it again with the same inputs (the same error
\* flag, date and timestamp) gives the same history, and no date twice.
C24_DailyUpdateIdempotent ==
    (pc = "saveHistory") =>
        /\ UpdateHistory(history, currentDate, currentUnixTimestamp, hasError,
                         ConfigTz(config)) = history
        /\ OnePerDate(UpdateHistory(history, currentDate, currentUnixTimestamp,
                                    hasError, ConfigTz(config)))

\* The statuses the history h records for date d.
StatusOn(h, d) == { h[i].status : i \in { j \in 1..Len(h) : h[j].date = d } }

\* C25 (as claimed): when a run writes status-history.json, no date's
\* entry goes back from 'error', and a date's entry is 'error' exactly when
\* it was 'error' before or it is the date of this run and the run has seen
\* a target down.
C25_GoodToErrorOnly ==
    [][(pc = "writeHistory" /\ pc' = "saveIncidents") =>
          \A d \in Dates(historyFile') :
              (StatusOn(historyFile', d) = {"error"})
                 <=> \/ "error" \in StatusOn(historyFile, d)
                     \/ (d = currentDate /\ hasError)]_vars

\* C26 (as claimed): when a run has completed with exit code 0, every
\* incident of status-incidents.json whose date has an entry in
\* status-history.json finds that entry with status 'error'.
C26_StoresAgree ==
    (pc = "idle" /\ exitCode = 0) =>
        \A i \in 1..Len(incidentsFile) :
            (incidentsFile[i].date \in Dates(historyFile))
                => StatusOn(historyFile, incidentsFile[i].date) = {"error"}

\* C29 (as claimed): every entry of status-history.json and every incident
\* of status-incidents.json has as date the calendar date of its own
\* timestamp in the configured timezone.
C29_DateIsDateOfTimestamp ==
    /\ \A i \in 1..Len(historyFile) :
          historyFile[i].date = getDateString(historyFile[i].timestamp, Tz)
    /\ \A i \in 1..Len(incidentsFile) :
          incidentsFile[i].date = getDateString(incidentsFile[i].timestamp, Tz)

\* config.json is there, parses and lists no service.
NoServicesConfigured ==
    configFile.present /\ configFile.parses /\ configFile.services = <<>>

\* C30: with a configuration that has no services, no run gets to probe
\* anything, every run that has ended has exit code 0, and the step of a
\* run leaves the three store files as they are.
C30_NoServicesNoEffect ==
    /\ [](NoServicesConfigured =>
            (pc = "idle" /\ request = "none" /\ exitCode \in {NULL, 0}))
    /\ [][(NoServicesConfigured /\ started' # started) =>
            /\ exitCode' = 0
            /\ historyFile' = historyFile
            /\ incidentsFile' = incidentsFile
            /\ resultsFile' = resultsFile
            /\ storeState' = storeState]_vars

\* Two runs have ended on a deployment whose services have been removed;
\* the 60 days of history are still there.
C30_Witness ==
    /\ NoServicesConfigured
    /\ pc = "idle"
    /\ started = 2
    /\ exitCode = 0
    /\ Len(historyFile) = MaxHistory
    /\ Len(resultsFile.results) = 2

\* C27: the step in which the first event of an open request arrives hands
\* the caller exactly one more result, of the kind of that event (status
\* code for a response, 'Error' for a transport error, 'Timeout' for the
\* timer); sending a request, and every later event of a request whose
\* promise has settled, leave the results and the check as they are.
C27_FirstEventDecides ==
    [][/\ (request = "open" /\ request' # "open" /\ pc' # "idle") =>
            /\ Len(results') = Len(results) + 1
            /\ SubSeq(results', 1, Len(results)) = results
            /\ (request' = "flowing") => results'[Len(results')].status # NULL
            /\ (request' = "failed") => results'[Len(results')].statusText = "Error"
            /\ (request' = "destroyed") =>
                   results'[Len(results')].statusText = "Timeout"
       /\ (request # "open" /\ pc # "idle" /\ pc' # "idle" /\ request' # request) =>
            /\ results' = results
            /\ currentCheck' = currentCheck
            /\ hasError' = hasError]_vars

\* The timer has fired and destroyed a request whose response had already
\* given the caller a result with status 200.
C27_Witness ==
    /\ request = "destroyed"
    /\ Len(results) > 0
    /\ results[Len(results)].status = 200

\* C22: for the status record the page has drawn, the overall badge is the
\* operational one exactly when every target is up, is the down one and
\* names exactly the failing targets when some target is down, and is the
\* degraded one in every remaining case; one of the three is always shown.
DownTargets(check) ==
    { i \in 1..Len(check.results) : IsDown(check.results[i]) }

C22_OneBadgePerRecord ==
    (loading = "done") =>
        /\ badge.className \in {"status-badge", "status-badge down",
                                "status-badge degraded"}
        /\ (badge.className = "status-badge") <=> (DownTargets(data) = {})
        /\ (DownTargets(data) # {}) =>
               /\ badge.className = "status-badge down"
               /\ Entries(badge.names) =
                      { ServiceName(data.results[i].url) : i \in DownTargets(data) }
               /\ Len(badge.names) = Cardinality(DownTargets(data))

\* The page has drawn a record with a target answering 404 and a target
\* answering 200, and names only the former.
C22_Witness ==
    /\ loading = "done"
    /\ badge.className = "status-badge down"
    /\ Len(badge.names) = 1
    /\ \E i \in 1..Len(data.results) : data.results[i].status = 404
    /\ \E i \in 1..Len(data.results) : data.results[i].status = 200

\* C23: when loadStatus cannot get or parse the status record, the page
\* shows its error state and schedules one retry, RetryDelay ms later,
\* without calling loadStatus at once; a retry is pending for as long as
\* the error is shown, the retry does come, and a load that succeeds
\* replaces the error by the services.
StatusUnreadable == resultsFile = NoCheck \/ storeState.results # "whole"

C23_ErrorShownAndRetried ==
    /\ [][(loading = "status" /\ loading' # "status" /\ StatusUnreadable) =>
              /\ container' = "error"
              /\ timers' = Append(timers, RetryDelay)
              /\ loading' = "failed"]_vars
    /\ [][(loading = "status" /\ loading' # "status" /\ ~StatusUnreadable) =>
              /\ timers' = timers
              /\ loading' = "history"]_vars
    /\ []((container = "error") <=> (timers = <<RetryDelay>>))
    /\ []((container = "error") => (lastUpdated = "Error"))
    /\ [](Len(timers) <= 1)
    /\ []((loading = "done") =>
              /\ container = "services"
              /\ lastUpdated = formatUnixTimestamp(data.timestamp))
    /\ ((container = "error") ~> (loading = "status" /\ container = "loading"))

\* The page has met a status record cut by the write in progress and
\* waits for its retry.
C23_Witness ==
    /\ loading = "failed"
    /\ container = "error"
    /\ timers = <<RetryDelay>>
    /\ storeState.results = "partial"
    /\ started = 2

\* C28: the status record a page has drawn is never paired with a history
\* or an incident store older than it: the history it fetched after the
\* record holds at least the entry of the record's run, and when the record
\* has a failing target the incidents it fetched hold at least one incident.
C28_StoresNotOlderThanStatus ==
    (loading = "done") =>
        /\ pageHistory # <<>>
        /\ (DownTargets(data) # {}) => (pageIncidents # <<>>)

====
